---- MODULE Spec2Model ----
(***************************************************************************)
(* Model of data-analytics/beam_ml_toxicity_in_gaming/part2.py: a          *)
(* streaming pipeline that reads chat messages from Pub/Sub, keys them by  *)
(* the userid attribute, runs a gaming and a movie toxicity model on the   *)
(* same keyed stream, flags gaming results against a threshold, publishes  *)
(* the flagged ones to an output topic, and writes the per-key, per-window *)
(* join of both result streams to a BigQuery table.                        *)
(*                                                                         *)
(* Units.  Time is in milliseconds (FixedWindows(0.1) is 100 ms).  Model   *)
(* scores are in tenths (-0.5 is -5, -0.9 is -9), so that the comparison   *)
(* tox_level > -0.5 is an integer comparison.  Bytes are 0..255, text is a *)
(* sequence of Unicode code points.  A Python tuple is a TLA+ tuple, so    *)
(* Python's element[1][1] is element[2][2] here.                           *)
(*                                                                         *)
(* Every element in flight carries the Beam metadata `window` and a ghost  *)
(* field `id`, the index in input_topic of the message it derives from;    *)
(* the id makes a PCollection (a bag) representable as a set.              *)
(***************************************************************************)
EXTENDS Integers, Sequences, FiniteSets, TLC

\* ------------------------------------------------------------------ bounds
\* Messages published to the input topic in one run.
MaxMsgs == 1
\* Clock ticks in one run.
MaxTicks == 2
\* Longest message body drawn for the keying transform on its own.
MaxBodyLen == 3

\* --------------------------------------------------------- program constants
\* beam.window.FixedWindows(0.1): the window size, 0.1 s, in milliseconds.
WindowSizeMs == 100
\* if tox_level > -0.5: the threshold, in tenths.
Threshold == -5

\* One clock tick: half a window, so that two timestamps share a window.
TickMs == WindowSizeMs \div 2

\* ------------------------------------------------------------ UTF-8 codec
\* bytes.decode('UTF-8') in strict mode (the default): the well-formed
\* sequences of Unicode Table 3-7; anything else raises UnicodeDecodeError.
IsCont(b) == b >= 128 /\ b <= 191

\* Length of the well-formed sequence that starts at position i of b, or 0.
SeqLenAt(b, i) ==
  LET n  == Len(b)
      b0 == b[i]
      b1 == IF i + 1 <= n THEN b[i + 1] ELSE -1
      b2 == IF i + 2 <= n THEN b[i + 2] ELSE -1
      b3 == IF i + 3 <= n THEN b[i + 3] ELSE -1
  IN  IF b0 < 128 THEN 1
      ELSE IF b0 >= 194 /\ b0 <= 223
        THEN IF IsCont(b1) THEN 2 ELSE 0
      ELSE IF b0 = 224
        THEN IF b1 >= 160 /\ b1 <= 191 /\ IsCont(b2) THEN 3 ELSE 0
      ELSE IF b0 = 237
        THEN IF b1 >= 128 /\ b1 <= 159 /\ IsCont(b2) THEN 3 ELSE 0
      ELSE IF b0 >= 225 /\ b0 <= 239
        THEN IF IsCont(b1) /\ IsCont(b2) THEN 3 ELSE 0
      ELSE IF b0 = 240
        THEN IF b1 >= 144 /\ b1 <= 191 /\ IsCont(b2) /\ IsCont(b3) THEN 4 ELSE 0
      ELSE IF b0 >= 241 /\ b0 <= 243
        THEN IF IsCont(b1) /\ IsCont(b2) /\ IsCont(b3) THEN 4 ELSE 0
      ELSE IF b0 = 244
        THEN IF b1 >= 128 /\ b1 <= 143 /\ IsCont(b2) /\ IsCont(b3) THEN 4 ELSE 0
      ELSE 0

\* The code point of the well-formed sequence of length k at position i.
CodePointAt(b, i, k) ==
  IF k = 1 THEN b[i]
  ELSE IF k = 2 THEN (b[i] - 192) * 64 + (b[i + 1] - 128)
  ELSE IF k = 3 THEN (b[i] - 224) * 4096 + (b[i + 1] - 128) * 64 + (b[i + 2] - 128)
  ELSE (b[i] - 240) * 262144 + (b[i + 1] - 128) * 4096
         + (b[i + 2] - 128) * 64 + (b[i + 3] - 128)

\* Decoding from position i on: [ok, text].
RECURSIVE DecodeFrom(_, _)
DecodeFrom(b, i) ==
  IF i > Len(b) THEN [ok |-> TRUE, text |-> << >>]
  ELSE LET k == SeqLenAt(b, i)
       IN  IF k = 0 THEN [ok |-> FALSE, text |-> << >>]
           ELSE LET rest == DecodeFrom(b, i + k)
                IN  [ok   |-> rest.ok,
                     text |-> IF rest.ok
                                THEN <<CodePointAt(b, i, k)>> \o rest.text
                                ELSE << >>]

\* A decoder that drops what it cannot decode instead of raising
\* (errors='ignore').
RECURSIVE LenientDecodeFrom(_, _)
LenientDecodeFrom(b, i) ==
  IF i > Len(b) THEN [ok |-> TRUE, text |-> << >>]
  ELSE LET k == SeqLenAt(b, i)
       IN  IF k = 0 THEN LenientDecodeFrom(b, i + 1)
           ELSE [ok   |-> TRUE,
                 text |-> <<CodePointAt(b, i, k)>> \o LenientDecodeFrom(b, i + k).text]

Utf8DecodeLenient(b) == LenientDecodeFrom(b, 1)

\* A decoder for the wrong charset: every byte is a character (Latin-1).
Latin1Decode(b) == [ok |-> TRUE, text |-> b]

\* data.decode('UTF-8')
Utf8Decode(b) == DecodeFrom(b, 1)

\* The inverse, used to state the round trip: str.encode('UTF-8') of one
\* code point.
EncodeCodePoint(c) ==
  IF c < 128 THEN <<c>>
  ELSE IF c < 2048 THEN <<192 + (c \div 64), 128 + (c % 64)>>
  ELSE IF c < 65536
    THEN <<224 + (c \div 4096), 128 + ((c \div 64) % 64), 128 + (c % 64)>>
  ELSE <<240 + (c \div 262144), 128 + ((c \div 4096) % 64),
         128 + ((c \div 64) % 64), 128 + (c % 64)>>

\* str.encode('UTF-8')
RECURSIVE Utf8Encode(_)
Utf8Encode(text) ==
  IF text = << >> THEN << >>
  ELSE EncodeCodePoint(Head(text)) \o Utf8Encode(Tail(text))

\* ------------------------------------------------------- tag_with_key
\* A transform that swallows undecodable bytes.
TagWithLenientDecode(element) ==
  IF "userid" \notin DOMAIN element.attributes
    THEN [raised |-> "KeyError", out |-> {}]
    ELSE [raised |-> "none",
          out    |-> {<<element.attributes["userid"],
                        Utf8DecodeLenient(element.data).text>>}]

\* tag_with_key.process: yield (element.attributes["userid"],
\* element.data.decode('UTF-8')).  The tuple is built left to right, so the
\* attribute lookup raises KeyError before the body is decoded.
\* [raised, out]: the exception that escapes, and the set of records yielded.
tag_with_key_process(element) ==
  IF "userid" \notin DOMAIN element.attributes
    THEN [raised |-> "KeyError", out |-> {}]
    ELSE LET d == Utf8Decode(element.data)
         IN  IF ~d.ok THEN [raised |-> "UnicodeDecodeError", out |-> {}]
             ELSE [raised |-> "none",
                   out    |-> {<<element.attributes["userid"], d.text>>}]

\* ------------------------------------------------------- RunInference
\* A handler that does not hand the key back: every result gets the same
\* placeholder key.
KeyedByPlaceholder(kv, score) == <<"", <<kv[2], score, "None">>>>

\* RunInference(KeyedModelHandler(...)) on one keyed record (key, example)
\* for which the wrapped model returns `score`: the key is handed back with
\* PredictionResult(example, inference, model_id), a named tuple.
RunInferenceKeyed(kv, score) == <<kv[1], <<kv[2], score, "None">>>>

\* ------------------------------------------------------- flag_for_toxic
\* The comparison taken as >= : the boundary score is flagged.
FlagInclusive(element) ==
  LET tox_level == element[2][2]
  IN  IF tox_level >= Threshold THEN {<<"not", element>>}
                                ELSE {<<"nice", element>>}

\* The labels swapped: low scores are flagged.
FlagSwapped(element) ==
  LET tox_level == element[2][2]
  IN  IF tox_level > Threshold THEN {<<"nice", element>>}
                               ELSE {<<"not", element>>}

\* flag_for_toxic.process: tox_level = element[1][1].numpy().item();
\* "not" (not nice) above the threshold, "nice" otherwise.  The set of
\* records yielded.
flag_for_toxic_process(element) ==
  LET tox_level == element[2][2]
  IN  IF tox_level > Threshold THEN {<<"not", element>>}
                               ELSE {<<"nice", element>>}

\* ------------------------------------------------------- output router
\* A filter that lets the other label through.
FilterNice(outcome) == outcome[1] = "nice"

\* beam.Filter(lambda outcome: outcome[0] == "not")
not_filter_lambda(outcome) == outcome[1] = "not"

\* str() of the tuple (key, PredictionResult(example, inference, model_id)),
\* as the sequence of its pieces.
PyStrKeyed(kv) ==
  <<"(", kv[1], ", ", "PredictionResult(example=", kv[2][1],
    ", inference=", kv[2][2], ", model_id=", kv[2][3], ")", ")">>

\* bytes(text, "UTF-8")
PyBytes(text) == <<"b", text>>

\* A conversion that renders the whole labelled record.
ConvertWholeOutcome(element) == PyBytes(<<"(", element[1], ", ">> \o PyStrKeyed(element[2]))

\* "Convert to bytestring": lambda element: bytes(str(element[1]), "UTF-8")
convert_to_bytestring(element) == PyBytes(PyStrKeyed(element[2]))

\* The key and the score a published byte string renders.
RenderedKey(b) == b[2][2]
RenderedScore(b) == b[2][7]

\* ------------------------------------------------------- windows
\* FixedWindows(size).assign: the start of the window holding timestamp t.
WindowOf(t) == t - (t % WindowSizeMs)

\* ------------------------------------------------------- join and sink
\* The values of a set of keyed elements as a list (in id order; Beam
\* promises no order).
RECURSIVE ValuesOf(_)
ValuesOf(S) ==
  IF S = {} THEN << >>
  ELSE LET e == CHOOSE x \in S : \A y \in S : x.id <= y.id
       IN  <<e.value[2]>> \o ValuesOf(S \ {e})

\* An inner join: nothing is emitted unless both streams have the key.
InnerJoin(k, g, m) ==
  IF g = {} \/ m = {} THEN {}
  ELSE {<<k, [gaming |-> ValuesOf(g), movie |-> ValuesOf(m)]>>}

\* A join fed from the flagged stream: only results above the threshold.
JoinFlaggedOnly(k, g, m) ==
  {<<k, [gaming |-> ValuesOf({e \in g : e.value[2][2] > Threshold}),
         movie  |-> ValuesOf(m)]>>}

\* {'gaming': ..., 'movie': ...} | CoGroupByKey() for one key and window:
\* g and m are the elements of each stream with key k in the window (not
\* both empty).  One (key, {tag: [values]}) record, an empty list for a
\* stream that has none.
CoGroupByKey(k, g, m) ==
  {<<k, [gaming |-> ValuesOf(g), movie |-> ValuesOf(m)]>>}

\* str() of a joined record.
PyStrJoined(j) ==
  <<"(", j[1], ", ", "{'gaming': ", j[2].gaming, ", 'movie': ", j[2].movie, "}", ")">>

\* "Convert to string": lambda element: {"data_col": str(element)}
convert_to_string(element) == [data_col |-> PyStrJoined(element)]

\* ------------------------------------------------------- inputs
Hello == <<104, 101, 108, 108, 111>>

\* Attribute maps of published messages: with and without userid.
Attributes == {[userid |-> "u1"], [userid |-> "u2", lang |-> "en"], [lang |-> "en"]}

\* Bodies of the messages sent through the whole pipeline: b"hello" and a
\* body that is not UTF-8.
PipelineBodies == {Hello, <<104, 255>>}

\* Scores (tenths) the gaming and the movie model return.
GamingScores == {-9, -5, -4}
MovieScores == {3}

\* Bytes the bodies given to the keying transform on its own are built from:
\* ASCII, lead bytes of 2-, 3- and 4-byte sequences, continuation bytes,
\* and bytes that never occur in UTF-8.
ByteAlphabet == {104, 195, 169, 224, 160, 128, 237, 240, 144, 255}

BodiesUpTo(n) == UNION {[1..k -> ByteAlphabet] : k \in 0..n}

\* ------------------------------------------------------- state
VARIABLES
  now,              \* the clock, ms
  input_topic,      \* messages published to tox-input, in order
  keyPending,       \* windowed messages awaiting "Key up input"
  failed,           \* elements whose processing raised: [id, error]
  read_from_pubsub, \* the keyed PCollection
  gamingPending,    \* keyed records awaiting gaming inference
  moviePending,     \* keyed records awaiting movie inference
  dropped,          \* elements whose inference raised: [id, stream]
  gaming_inference, \* the gaming PCollection
  movie_inference,  \* the movie PCollection
  flagPending,      \* gaming results awaiting flag_for_toxic
  nice_or_not,      \* the labelled PCollection
  printPending,     \* labelled records awaiting Map(print)
  stdout,           \* what was printed
  filterPending,    \* labelled records awaiting the filter
  convertPending,   \* not_filter: records awaiting "Convert to bytestring"
  writePending,     \* byte strings awaiting WriteToPubSub
  output_topic,     \* messages published to tox-output
  gamingBuffer,     \* CoGroupByKey state: gaming results not yet joined
  movieBuffer,      \* CoGroupByKey state: movie results not yet joined
  joined,           \* the joined PCollection
  stringPending,    \* joined records awaiting "Convert to string"
  insertPending,    \* rows awaiting WriteToBigQuery
  table             \* rows of demo.tox

vars == <<now, input_topic, keyPending, failed, read_from_pubsub,
          gamingPending, moviePending, dropped, gaming_inference,
          movie_inference, flagPending, nice_or_not, printPending, stdout,
          filterPending, convertPending, writePending, output_topic,
          gamingBuffer, movieBuffer, joined, stringPending, insertPending,
          table>>

sourceVars == <<now, input_topic>>
keyVars == <<keyPending, failed, read_from_pubsub>>
inferVars == <<gamingPending, moviePending, dropped, gaming_inference,
               movie_inference>>
routeVars == <<flagPending, nice_or_not, printPending, stdout, filterPending,
               convertPending, writePending, output_topic>>
joinVars == <<gamingBuffer, movieBuffer, joined>>
sinkVars == <<stringPending, insertPending, table>>

\* with beam.Pipeline(...) as p: nothing read, nothing in flight.
Init ==
  /\ now = 0
  /\ input_topic = << >>
  /\ keyPending = {} /\ failed = {} /\ read_from_pubsub = {}
  /\ gamingPending = {} /\ moviePending = {} /\ dropped = {}
  /\ gaming_inference = {} /\ movie_inference = {}
  /\ flagPending = {} /\ nice_or_not = {} /\ printPending = {} /\ stdout = {}
  /\ filterPending = {} /\ convertPending = {} /\ writePending = {}
  /\ output_topic = {}
  /\ gamingBuffer = {} /\ movieBuffer = {} /\ joined = {}
  /\ stringPending = {} /\ insertPending = {} /\ table = {}

\* Time passes.
Tick ==
  /\ now < MaxTicks * TickMs
  /\ now' = now + TickMs
  /\ UNCHANGED <<input_topic, keyVars, inferVars, routeVars, joinVars, sinkVars>>

\* "Read from PubSub" and "Window data": a message published now is read
\* with its attributes and assigned to its fixed window.
ReadFromPubSub(attributes, data) ==
  /\ Len(input_topic) < MaxMsgs
  /\ LET msg == [attributes |-> attributes, data |-> data]
         id  == Len(input_topic) + 1
     IN  /\ input_topic' = Append(input_topic, [timestamp |-> now, value |-> msg])
         /\ keyPending' = keyPending \cup
                            {[id |-> id, window |-> WindowOf(now), value |-> msg]}
  /\ UNCHANGED <<now, failed, read_from_pubsub, inferVars, routeVars, joinVars,
                 sinkVars>>

\* "Key up input": ParDo(tag_with_key()) on one element.  A record yielded
\* goes to both inference stages; an exception escapes the DoFn (nothing in
\* process catches it) and the element is recorded as failed: it yields
\* nothing and no longer holds the watermark back.
KeyUpInput(e) ==
  /\ e \in keyPending
  /\ keyPending' = keyPending \ {e}
  /\ LET r   == tag_with_key_process(e.value)
         out == {[id |-> e.id, window |-> e.window, value |-> v] : v \in r.out}
     IN  /\ failed' = IF r.raised = "none" THEN failed
                      ELSE failed \cup {[id |-> e.id, error |-> r.raised]}
         /\ read_from_pubsub' = read_from_pubsub \cup out
         /\ gamingPending' = gamingPending \cup out
         /\ moviePending' = moviePending \cup out
  /\ UNCHANGED <<sourceVars, dropped, gaming_inference, movie_inference,
                 routeVars, joinVars, sinkVars>>

\* "Perform gaming inference" on one keyed record; the result goes to
\* flag_for_toxic and to the join.
PerformGamingInference(e, score) ==
  /\ e \in gamingPending
  /\ gamingPending' = gamingPending \ {e}
  /\ LET r == [id |-> e.id, window |-> e.window,
               value |-> RunInferenceKeyed(e.value, score)]
     IN  /\ gaming_inference' = gaming_inference \cup {r}
         /\ flagPending' = flagPending \cup {r}
         /\ gamingBuffer' = gamingBuffer \cup {r}
  /\ UNCHANGED <<sourceVars, keyVars, moviePending, dropped, movie_inference,
                 nice_or_not, printPending, stdout, filterPending,
                 convertPending, writePending, output_topic, movieBuffer,
                 joined, sinkVars>>

\* "Perform movie inference" on one keyed record; the result goes to the join.
PerformMovieInference(e, score) ==
  /\ e \in moviePending
  /\ moviePending' = moviePending \ {e}
  /\ LET r == [id |-> e.id, window |-> e.window,
               value |-> RunInferenceKeyed(e.value, score)]
     IN  /\ movie_inference' = movie_inference \cup {r}
         /\ movieBuffer' = movieBuffer \cup {r}
  /\ UNCHANGED <<sourceVars, keyVars, gamingPending, dropped, gaming_inference,
                 routeVars, gamingBuffer, joined, sinkVars>>

\* An inference call raises (a shape or type mismatch): the element yields
\* no result in that stream.
GamingInferenceRaises(e) ==
  /\ e \in gamingPending
  /\ gamingPending' = gamingPending \ {e}
  /\ dropped' = dropped \cup {[id |-> e.id, stream |-> "gaming"]}
  /\ UNCHANGED <<sourceVars, keyVars, moviePending, gaming_inference,
                 movie_inference, routeVars, joinVars, sinkVars>>

MovieInferenceRaises(e) ==
  /\ e \in moviePending
  /\ moviePending' = moviePending \ {e}
  /\ dropped' = dropped \cup {[id |-> e.id, stream |-> "movie"]}
  /\ UNCHANGED <<sourceVars, keyVars, gamingPending, gaming_inference,
                 movie_inference, routeVars, joinVars, sinkVars>>

\* ParDo(flag_for_toxic()) on one gaming result; the labelled record goes
\* to Map(print) and to the filter.
FlagForToxic(e) ==
  /\ e \in flagPending
  /\ flagPending' = flagPending \ {e}
  /\ LET out == {[id |-> e.id, window |-> e.window, value |-> v] :
                   v \in flag_for_toxic_process(e.value)}
     IN  /\ nice_or_not' = nice_or_not \cup out
         /\ printPending' = printPending \cup out
         /\ filterPending' = filterPending \cup out
  /\ UNCHANGED <<sourceVars, keyVars, inferVars, stdout, convertPending,
                 writePending, output_topic, joinVars, sinkVars>>

\* nice_or_not | beam.Map(print)
PrintOutcome(e) ==
  /\ e \in printPending
  /\ printPending' = printPending \ {e}
  /\ stdout' = stdout \cup {e}
  /\ UNCHANGED <<sourceVars, keyVars, inferVars, flagPending, nice_or_not,
                 filterPending, convertPending, writePending, output_topic,
                 joinVars, sinkVars>>

\* not_filter = nice_or_not | beam.Filter(...)
NotFilter(e) ==
  /\ e \in filterPending
  /\ filterPending' = filterPending \ {e}
  /\ convertPending' = IF not_filter_lambda(e.value)
                         THEN convertPending \cup {e} ELSE convertPending
  /\ UNCHANGED <<sourceVars, keyVars, inferVars, flagPending, nice_or_not,
                 printPending, stdout, writePending, output_topic, joinVars,
                 sinkVars>>

\* "Convert to bytestring"
ConvertToBytestring(e) ==
  /\ e \in convertPending
  /\ convertPending' = convertPending \ {e}
  /\ writePending' = writePending \cup
       {[id |-> e.id, window |-> e.window, value |-> convert_to_bytestring(e.value)]}
  /\ UNCHANGED <<sourceVars, keyVars, inferVars, flagPending, nice_or_not,
                 printPending, stdout, filterPending, output_topic, joinVars,
                 sinkVars>>

\* beam.io.WriteToPubSub(topic=output_topic)
WriteToPubSub(e) ==
  /\ e \in writePending
  /\ writePending' = writePending \ {e}
  /\ output_topic' = output_topic \cup {e}
  /\ UNCHANGED <<sourceVars, keyVars, inferVars, flagPending, nice_or_not,
                 printPending, stdout, filterPending, convertPending, joinVars,
                 sinkVars>>

\* A watermark that follows the clock alone.
ClockPast(w) == now >= w + WindowSizeMs

\* The watermark has passed the end of window w: the window is over and no
\* element of it is still on its way to the join.
WatermarkPast(w) ==
  /\ now >= w + WindowSizeMs
  /\ \A e \in keyPending \cup gamingPending \cup moviePending : e.window # w

\* 'Join': the pane of key k and window w fires once the watermark passes
\* the end of the window, with everything buffered for k and w.
Join(k, w) ==
  LET g == {e \in gamingBuffer : e.value[1] = k /\ e.window = w}
      m == {e \in movieBuffer : e.value[1] = k /\ e.window = w}
      out == {[window |-> w, value |-> v,
               ids |-> [gaming |-> {e.id : e \in g}, movie |-> {e.id : e \in m}]] :
                v \in CoGroupByKey(k, g, m)}
  IN  /\ g \cup m # {}
      /\ WatermarkPast(w)
      /\ gamingBuffer' = gamingBuffer \ g
      /\ movieBuffer' = movieBuffer \ m
      /\ joined' = joined \cup out
      /\ stringPending' = stringPending \cup out
      /\ UNCHANGED <<sourceVars, keyVars, inferVars, routeVars, insertPending,
                     table>>

\* "Convert to string"
ConvertToString(j) ==
  /\ j \in stringPending
  /\ stringPending' = stringPending \ {j}
  /\ insertPending' = insertPending \cup
       {[window |-> j.window, value |-> convert_to_string(j.value), ids |-> j.ids]}
  /\ UNCHANGED <<sourceVars, keyVars, inferVars, routeVars, joinVars, table>>

\* WriteToBigQuery(method=STREAMING_INSERTS, table=output_bigquery, schema=schema)
WriteToBigQuery(r) ==
  /\ r \in insertPending
  /\ insertPending' = insertPending \ {r}
  /\ table' = table \cup {r}
  /\ UNCHANGED <<sourceVars, keyVars, inferVars, routeVars, joinVars,
                 stringPending>>

Keys == {a["userid"] : a \in {x \in Attributes : "userid" \in DOMAIN x}}
Windows == {WindowOf(t * TickMs) : t \in 0..MaxTicks}

Next ==
  \/ Tick
  \/ \E a \in Attributes, d \in PipelineBodies : ReadFromPubSub(a, d)
  \/ \E e \in keyPending : KeyUpInput(e)
  \/ \E e \in gamingPending, s \in GamingScores : PerformGamingInference(e, s)
  \/ \E e \in moviePending, s \in MovieScores : PerformMovieInference(e, s)
  \/ \E e \in gamingPending : GamingInferenceRaises(e)
  \/ \E e \in moviePending : MovieInferenceRaises(e)
  \/ \E e \in flagPending : FlagForToxic(e)
  \/ \E e \in printPending : PrintOutcome(e)
  \/ \E e \in filterPending : NotFilter(e)
  \/ \E e \in convertPending : ConvertToBytestring(e)
  \/ \E e \in writePending : WriteToPubSub(e)
  \/ \E k \in Keys, w \in Windows : Join(k, w)
  \/ \E j \in stringPending : ConvertToString(j)
  \/ \E r \in insertPending : WriteToBigQuery(r)

Spec == Init /\ [][Next]_vars

\* The keying transform on its own: one message of any attributes and any
\* body up to MaxBodyLen bytes has been read and awaits "Key up input".
KeyingInit ==
  \E a \in Attributes, d \in BodiesUpTo(MaxBodyLen) \cup {Hello} :
    LET msg == [attributes |-> a, data |-> d]
    IN  /\ now = 0
        /\ input_topic = <<[timestamp |-> 0, value |-> msg]>>
        /\ keyPending = {[id |-> 1, window |-> 0, value |-> msg]}
        /\ failed = {} /\ read_from_pubsub = {}
        /\ gamingPending = {} /\ moviePending = {} /\ dropped = {}
        /\ gaming_inference = {} /\ movie_inference = {}
        /\ flagPending = {} /\ nice_or_not = {} /\ printPending = {}
        /\ stdout = {} /\ filterPending = {} /\ convertPending = {}
        /\ writePending = {} /\ output_topic = {}
        /\ gamingBuffer = {} /\ movieBuffer = {} /\ joined = {}
        /\ stringPending = {} /\ insertPending = {} /\ table = {}

KeyingNext == \E e \in keyPending : KeyUpInput(e)

KeyingSpec == KeyingInit /\ [][KeyingNext]_vars

\* ------------------------------------------------------- properties
MsgIds == 1..Len(input_topic)
MsgOf(i) == input_topic[i].value
HasUserId(i) == "userid" \in DOMAIN MsgOf(i).attributes
ValidBody(i) == Utf8Decode(MsgOf(i).data).ok

\* Element i is still somewhere between flag_for_toxic and the output topic.
InRouter(i) ==
  \/ \E e \in flagPending : e.id = i
  \/ \E e \in filterPending : e.id = i
  \/ \E e \in convertPending : e.id = i
  \/ \E e \in writePending : e.id = i

\* The score of a labelled record (label, (key, PredictionResult)).
LabelledScore(v) == v[2][2][2]

\* The gaming result comes from the message userid "u1", body b"hello", and
\* the gaming model returned -0.9 for it.
IsScenario(g) ==
  /\ HasUserId(g.id)
  /\ MsgOf(g.id).attributes["userid"] = "u1"
  /\ MsgOf(g.id).data = Hello
  /\ g.value[2][2] = -9

\* C1 as stated: a labelled gaming result carries the label the router lets
\* through ("not") if and only if its score is <= -0.5.
C1_ToxicIffAtMostThreshold ==
  \A e \in nice_or_not :
    (e.value[1] = "not") <=> (LabelledScore(e.value) <= Threshold)

\* C1, amended: a labelled gaming result carries the label the router lets
\* through ("not") if and only if its score is > -0.5, and the other label
\* ("nice") if and only if its score is <= -0.5.
C1_ToxicIffAboveThreshold ==
  \A e \in nice_or_not :
    /\ (e.value[1] = "not") <=> (LabelledScore(e.value) > Threshold)
    /\ (e.value[1] = "nice") <=> (LabelledScore(e.value) <= Threshold)

C1_Witness ==
  \E e \in nice_or_not : e.value[1] = "not" /\ LabelledScore(e.value) = -4

\* C2: a gaming result whose score is exactly -0.5 is not labelled toxic
\* ("not"), and nothing derived from it is on the output topic.
C2_BoundaryNotToxic ==
  \A g \in gaming_inference :
    g.value[2][2] = Threshold =>
      /\ \A e \in nice_or_not : e.id = g.id => e.value[1] # "not"
      /\ \A e \in convertPending : e.id # g.id
      /\ \A e \in writePending : e.id # g.id
      /\ \A o \in output_topic : o.id # g.id

C2_Witness ==
  \E e \in nice_or_not :
    /\ LabelledScore(e.value) = Threshold
    /\ ~InRouter(e.id)

\* C3 as stated, as the final result of the record's trip through the
\* router: once the gaming result of the message (userid "u1", b"hello")
\* with score -0.9 has left the router, it was labelled toxic and the output
\* topic holds a byte string rendering "u1" and -0.9.
C3_ScenarioPublished ==
  \A g \in gaming_inference :
    (IsScenario(g) /\ ~InRouter(g.id)) =>
      /\ \E e \in nice_or_not : e.id = g.id /\ e.value[1] = "not"
      /\ \E o \in output_topic :
           /\ o.id = g.id
           /\ RenderedKey(o.value) = "u1"
           /\ RenderedScore(o.value) = -9

\* C3, amended: the gaming result of the message (userid "u1", b"hello")
\* with score -0.9 is labelled "nice" (not toxic), and no byte string
\* derived from it is ever handed to or published on the output topic.
C3_ScenarioNotPublished ==
  \A g \in gaming_inference :
    IsScenario(g) =>
      /\ \A e \in nice_or_not : e.id = g.id => e.value[1] = "nice"
      /\ \A e \in convertPending : e.id # g.id
      /\ \A e \in writePending : e.id # g.id
      /\ \A o \in output_topic : o.id # g.id

C3_Witness ==
  \E g \in gaming_inference :
    /\ IsScenario(g)
    /\ \E e \in nice_or_not : e.id = g.id
    /\ ~InRouter(g.id)

\* C4: every message on the output topic renders the key and the score of a
\* gaming result that flag_for_toxic labelled "not"; a record labelled
\* "nice" is not published; a movie result is not published; and every
\* record labelled "not" that has left the router is on the output topic.
C4_OutputIsExactlyFlagged ==
  /\ \A o \in output_topic :
       \E e \in nice_or_not, g \in gaming_inference :
         /\ e.id = o.id /\ g.id = o.id
         /\ e.value[1] = "not"
         /\ e.value[2] = g.value
         /\ o.value[1] = "b"
         /\ RenderedKey(o.value) = g.value[1]
         /\ RenderedScore(o.value) = g.value[2][2]
  /\ \A e \in nice_or_not :
       e.value[1] = "nice" => \A o \in output_topic : o.id # e.id
  /\ \A o \in output_topic, m \in movie_inference :
       o.id = m.id => RenderedScore(o.value) # m.value[2][2]
  /\ \A e \in nice_or_not :
       (e.value[1] = "not" /\ ~InRouter(e.id)) =>
         \E o \in output_topic : o.id = e.id

C4_Witness ==
  \E o \in output_topic :
    \E m \in movie_inference : m.id = o.id

\* The results of a stream with key k in window w.
ResultsFor(stream, k, w) == {r \in stream : r.value[1] = k /\ r.window = w}

\* C5: a joined record of key k and window w holds, under "gaming" and under
\* "movie", exactly the results of that stream with key k in window w (both
\* when both streams have one, an empty list for a stream that has none);
\* there is at most one joined record per key and window; and a result that
\* has left the join's buffer is in the joined record of its key and window,
\* also when the other stream has none.
C5_OuterJoinPerKeyAndWindow ==
  /\ \A j \in joined :
       LET g == ResultsFor(gaming_inference, j.value[1], j.window)
           m == ResultsFor(movie_inference, j.value[1], j.window)
       IN  /\ j.ids.gaming = {r.id : r \in g}
           /\ j.ids.movie = {r.id : r \in m}
           /\ Len(j.value[2].gaming) = Cardinality(g)
           /\ Len(j.value[2].movie) = Cardinality(m)
           /\ \A r \in g : \E n \in DOMAIN j.value[2].gaming :
                j.value[2].gaming[n] = r.value[2]
           /\ \A r \in m : \E n \in DOMAIN j.value[2].movie :
                j.value[2].movie[n] = r.value[2]
  /\ \A j1 \in joined, j2 \in joined :
       (j1.value[1] = j2.value[1] /\ j1.window = j2.window) => j1 = j2
  /\ \A r \in gaming_inference :
       r \notin gamingBuffer =>
         \E j \in joined :
           j.value[1] = r.value[1] /\ j.window = r.window /\ r.id \in j.ids.gaming
  /\ \A r \in movie_inference :
       r \notin movieBuffer =>
         \E j \in joined :
           j.value[1] = r.value[1] /\ j.window = r.window /\ r.id \in j.ids.movie

C5_Witness ==
  \E j \in joined : j.value[2].gaming # << >> /\ j.value[2].movie # << >>

\* C6: a message with a userid attribute and a valid UTF-8 body yields
\* exactly one keyed record; its key is the userid attribute and encoding its
\* payload as UTF-8 gives back the body.
C6_KeyingRoundTrip ==
  \A i \in MsgIds :
    (/\ HasUserId(i) /\ ValidBody(i)
     /\ \A e \in keyPending : e.id # i) =>
      /\ Cardinality({r \in read_from_pubsub : r.id = i}) = 1
      /\ \A r \in read_from_pubsub :
           r.id = i => /\ r.value[1] = MsgOf(i).attributes["userid"]
                       /\ Utf8Encode(r.value[2]) = MsgOf(i).data
      /\ \A f \in failed : f.id # i

C6_Witness ==
  \E r \in read_from_pubsub :
    /\ r.value[1] = "u2"
    /\ MsgOf(r.id).data = <<104, 195, 169>>
    /\ r.value[2] = <<104, 233>>

\* C7: a prediction result carries the key of the keyed record it was
\* computed from, and at every later stage (labelling, publishing, join,
\* table) the key of a record is the userid attribute of its message.
C7_KeyPreserved ==
  /\ \A r \in gaming_inference :
       /\ \E e \in read_from_pubsub : e.id = r.id /\ e.value[1] = r.value[1]
       /\ HasUserId(r.id) /\ r.value[1] = MsgOf(r.id).attributes["userid"]
  /\ \A r \in movie_inference :
       /\ \E e \in read_from_pubsub : e.id = r.id /\ e.value[1] = r.value[1]
       /\ HasUserId(r.id) /\ r.value[1] = MsgOf(r.id).attributes["userid"]
  /\ \A e \in nice_or_not :
       e.value[2][1] = MsgOf(e.id).attributes["userid"]
  /\ \A o \in output_topic :
       RenderedKey(o.value) = MsgOf(o.id).attributes["userid"]
  /\ \A j \in joined :
       \A i \in j.ids.gaming \cup j.ids.movie :
         j.value[1] = MsgOf(i).attributes["userid"]
  /\ \A r \in table :
       \A i \in r.ids.gaming \cup r.ids.movie :
         r.value.data_col[2] = MsgOf(i).attributes["userid"]

C7_Witness ==
  /\ \E o \in output_topic : RenderedKey(o.value) = "u2"
  /\ \E r \in table : r.ids.gaming # {} /\ r.ids.movie # {}

\* Nothing derived from message i is anywhere past the keying transform.
NothingDerived(i) ==
  /\ \A e \in read_from_pubsub : e.id # i
  /\ \A e \in gamingPending : e.id # i
  /\ \A e \in moviePending : e.id # i
  /\ \A e \in gaming_inference : e.id # i
  /\ \A e \in movie_inference : e.id # i
  /\ \A e \in nice_or_not : e.id # i
  /\ \A e \in output_topic : e.id # i
  /\ \A j \in joined : i \notin j.ids.gaming \cup j.ids.movie
  /\ \A r \in table : i \notin r.ids.gaming \cup r.ids.movie

Keyed(i) == \A e \in keyPending : e.id # i

\* C8 as stated: a message without userid fails with KeyError, a message
\* whose body is not valid UTF-8 fails with UnicodeDecodeError, and in both
\* cases nothing derived from it exists downstream.
C8_EachDefectItsError ==
  \A i \in MsgIds :
    LET valid == ValidBody(i)
    IN  /\ (~HasUserId(i) /\ Keyed(i)) =>
             [id |-> i, error |-> "KeyError"] \in failed
        /\ (~valid /\ Keyed(i)) =>
             [id |-> i, error |-> "UnicodeDecodeError"] \in failed
        /\ (~HasUserId(i) \/ ~valid) => NothingDerived(i)

\* C8, amended: a message without userid fails with KeyError (whatever its
\* body); a message with userid whose body is not valid UTF-8 fails with
\* UnicodeDecodeError; the error stays recorded as the element's only
\* outcome, and nothing derived from the message exists downstream.
C8_KeyErrorFirst ==
  \A i \in MsgIds :
    LET valid == ValidBody(i)
    IN  /\ (~HasUserId(i) /\ Keyed(i)) =>
             {f \in failed : f.id = i} = {[id |-> i, error |-> "KeyError"]}
        /\ (HasUserId(i) /\ ~valid /\ Keyed(i)) =>
             {f \in failed : f.id = i} = {[id |-> i, error |-> "UnicodeDecodeError"]}
        /\ (~HasUserId(i) \/ ~valid) => NothingDerived(i)

C8_Witness ==
  \E i \in MsgIds :
    /\ HasUserId(i) /\ ~ValidBody(i)
    /\ [id |-> i, error |-> "UnicodeDecodeError"] \in failed
    /\ now >= WindowSizeMs

\* C9: when no inference call has raised, every joined record has as many
\* entries under "gaming" as under "movie", and none has an empty list.
C9_BalancedJoin ==
  dropped = {} =>
    \A j \in joined :
      /\ Len(j.value[2].gaming) = Len(j.value[2].movie)
      /\ j.value[2].gaming # << >>
      /\ j.value[2].movie # << >>
      /\ j.ids.gaming = j.ids.movie

C9_Witness ==
  /\ dropped = {}
  /\ \E j \in joined : Len(j.value[2].gaming) = 1 /\ Len(j.value[2].movie) = 1

\* A joined record is still on its way to the table.
InSink(j) ==
  \/ j \in stringPending
  \/ \E r \in insertPending : r.window = j.window /\ r.ids = j.ids

\* C10: flag_for_toxic yields exactly one labelled record per gaming result
\* and the record holds the result unchanged; every gaming result the join
\* has taken, whatever its label, is in a joined record as the unlabelled
\* prediction; and a joined record that has left the sink is exactly one
\* row of the table, with the single field data_col.
C10_LabelOnlyOnOutputBranch ==
  /\ \A g \in gaming_inference :
       g \notin flagPending =>
         /\ Cardinality({e \in nice_or_not : e.id = g.id}) = 1
         /\ \A e \in nice_or_not : e.id = g.id => e.value[2] = g.value
  /\ \A g \in gaming_inference :
       g \notin gamingBuffer =>
         \E j \in joined :
           /\ g.id \in j.ids.gaming
           /\ \E n \in DOMAIN j.value[2].gaming : j.value[2].gaming[n] = g.value[2]
  /\ \A j \in joined :
       ~InSink(j) =>
         /\ Cardinality({r \in table : r.window = j.window /\ r.ids = j.ids}) = 1
         /\ \A r \in table :
              (r.window = j.window /\ r.ids = j.ids) =>
                /\ DOMAIN r.value = {"data_col"}
                /\ r.value.data_col[2] = j.value[1]
                /\ r.value.data_col[5] = j.value[2].gaming
                /\ r.value.data_col[7] = j.value[2].movie

C10_Witness ==
  \E r \in table, e \in nice_or_not :
    /\ e.id \in r.ids.gaming
    /\ e.value[1] = "nice"
====
